---- MODULE Spec2Model ----
(***************************************************************************)
(* Model of the FmodCMake developer-setup tools (src/tools):              *)
(*   get_fmod_api.py, get_raylib.py          the two downloaders          *)
(*   install_fmod_api.py, install_raylib.py  the two installers           *)
(*   setup_fmod_api.py, setup_raylib.py      the two orchestrators        *)
(*                                                                         *)
(* One run of one script is one behaviour.  File names are strings, paths *)
(* are tuples of path components, the file system is the set of files and *)
(* the set of explicitly created directories.  An orchestrator runs its   *)
(* two child scripts as nested runs of the same downloader and installer  *)
(* actions.  The answers of the network, of the archive tools and of the  *)
(* file system are drawn nondeterministically where the code asks.        *)
(***************************************************************************)
EXTENDS Integers, Sequences, FiniteSets, TLC

VARIABLES
    script,      \* the script the operator started
    argv,        \* its arguments, sys.argv[1:]
    opc,         \* position of the orchestrator's main ("none": no orchestrator)
    orc,         \* exit status of the orchestrator (-1 while it runs)
    installer_name, \* setup_*.main: installer_name ("" before it is computed)
    steps,       \* child scripts the orchestrator has started, in order
    proc,        \* the downloader or installer now running ("none": not started)
    pargv,       \* its arguments, sys.argv[1:]
    pc,          \* its position in main
    rc,          \* its exit status (-1 while it runs or before it starts)
    local,       \* its local variables
    fs_files,    \* the files of the file system (absolute paths)
    fs_dirs,     \* the directories created explicitly (absolute paths)
    requests,    \* the HTTP requests issued so far, in order
    calls,       \* the external tools invoked so far, in order, each with
                 \* its result: <<command, "ok" or "failed">>
    touched,     \* the paths the run has created, written or removed so far
    out          \* the messages printed so far

vars == <<script, argv, opc, orc, installer_name, steps, proc, pargv, pc, rc,
          local, fs_files, fs_dirs, requests, calls, touched, out>>

-----------------------------------------------------------------------------
(* Bounds *)

\* Longest version string of a run.
MaxVersionLen == 2


-----------------------------------------------------------------------------
(* Strings *)

\* str.endswith / `sub in s`
EndsWith(s, suf) ==
    Len(suf) <= Len(s) /\ SubSeq(s, Len(s) - Len(suf) + 1, Len(s)) = suf
Contains(s, sub) ==
    \E i \in 1..(Len(s) + 1) :
        i + Len(sub) - 1 <= Len(s) /\ SubSeq(s, i, i + Len(sub) - 1) = sub

UpperCase == <<"A", "B", "C", "D", "E", "F", "G", "H", "I", "J", "K", "L", "M",
               "N", "O", "P", "Q", "R", "S", "T", "U", "V", "W", "X", "Y", "Z">>
LowerCase == <<"a", "b", "c", "d", "e", "f", "g", "h", "i", "j", "k", "l", "m",
               "n", "o", "p", "q", "r", "s", "t", "u", "v", "w", "x", "y", "z">>

LowerChar(c) ==
    IF \E i \in 1..26 : UpperCase[i] = c
    THEN LowerCase[CHOOSE i \in 1..26 : UpperCase[i] = c]
    ELSE c

\* str.lower()
RECURSIVE Lower(_)
Lower(s) ==
    IF s = "" THEN "" ELSE LowerChar(SubSeq(s, 1, 1)) \o Lower(Tail(s))

\* template.format(version=v): a template is <<text before, text after>> the
\* {version} placeholder
Format(template, v) == template[1] \o v \o template[2]

-----------------------------------------------------------------------------
(* Paths: tuples of components *)

IsPrefix(p, q) == Len(p) <= Len(q) /\ SubSeq(q, 1, Len(p)) = p
IsUnder(q, p) == Len(p) < Len(q) /\ SubSeq(q, 1, Len(p)) = p
PathName(p) == p[Len(p)]
Parent(p) == SubSeq(p, 1, Len(p) - 1)
\* the path of q, which lies under p, relative to p
RelativeTo(q, p) == SubSeq(q, Len(p) + 1, Len(q))

\* Path.exists(): a file, a created directory, or a directory on the way to one
Exists(files, dirs, p) == \E q \in files \cup dirs : IsPrefix(p, q)
\* Path.is_file()
IsFile(files, p) == p \in files
\* every entry (file or directory) strictly below p
EntriesUnder(files, dirs, p) ==
    UNION {{SubSeq(q, 1, n) : n \in (Len(p) + 1)..Len(q)} :
              q \in {x \in files \cup dirs : IsUnder(x, p)}}
\* the files below directory p
FilesUnder(files, p) == {q \in files : IsUnder(q, p)}
\* Path.rglob(name) on directory p: the entries below p with that name
RGlob(files, dirs, p, name) ==
    {e \in EntriesUnder(files, dirs, p) : PathName(e) = name}
\* the first entry rglob yields: the walk is top-down, so an entry of the
\* directory itself comes before the entries of its subdirectories
FirstMatch(matches) ==
    CHOOSE m \in matches : \A n \in matches : Len(m) <= Len(n)
\* every directory on the way to p, and p itself: mkdir(parents=True)
WithParents(p) == {SubSeq(p, 1, n) : n \in 1..Len(p)}

CWD == <<"cwd">>
TMP == <<"tmp">>
PROJECT_ROOT == <<"proj">>

\* the components of a path string: the text between the "/" separators,
\* `cur` being the component read so far
RECURSIVE PathParts(_, _)
PathParts(s, cur) ==
    IF s = "" THEN (IF cur = "" THEN <<>> ELSE <<cur>>)
    ELSE IF SubSeq(s, 1, 1) = "/"
         THEN (IF cur = "" THEN <<>> ELSE <<cur>>) \o PathParts(Tail(s), "")
         ELSE PathParts(Tail(s), cur \o SubSeq(s, 1, 1))

\* Path(arg) as the file system resolves it: an absolute path as it is, any
\* other against the working directory
ArgPath(arg) ==
    IF arg # "" /\ SubSeq(arg, 1, 1) = "/" THEN PathParts(arg, "")
    ELSE CWD \o PathParts(arg, "")

-----------------------------------------------------------------------------
(* get_fmod_api.py, get_raylib.py: the platform tables *)

GetFmod_PLATFORM_CONFIG ==
    [mac     |-> [filename |-> <<"fmodstudioapi", "mac-installer.dmg">>,
                  path |-> "files/fmodstudio/api/Mac/"],
     linux   |-> [filename |-> <<"fmodstudioapi", "linux.tar.gz">>,
                  path |-> "files/fmodstudio/api/Linux/"],
     windows |-> [filename |-> <<"fmodstudioapi", "win-installer.exe">>,
                  path |-> "files/fmodstudio/api/Windows/"]]

GetRaylib_PLATFORM_CONFIG ==
    [mac     |-> [filename |-> <<"raylib-", "_macos.tar.gz">>],
     linux   |-> [filename |-> <<"raylib-", "_linux_amd64.tar.gz">>],
     windows |-> [filename |-> <<"raylib-", "_win64_msvc16.zip">>]]

DownloaderConfig(s) ==
    IF s = "get_fmod_api" THEN GetFmod_PLATFORM_CONFIG
    ELSE GetRaylib_PLATFORM_CONFIG

\* filename = config['filename'].format(version=...)
DownloaderFilename(s, platform, version) ==
    Format(DownloaderConfig(s)[platform].filename, version)

(* setup_fmod_api.py, setup_raylib.py: installer_patterns *)

SetupFmod_installer_patterns(api_version) ==
    [windows |-> "fmodstudioapi" \o api_version \o "win-installer.exe",
     linux   |-> "fmodstudioapi" \o api_version \o "linux.tar.gz",
     apple   |-> "fmodstudioapi" \o api_version \o "mac-installer.dmg"]

SetupRaylib_installer_patterns(raylib_version) ==
    [mac     |-> "raylib-" \o raylib_version \o "_macos.tar.gz",
     linux   |-> "raylib-" \o raylib_version \o "_linux_amd64.tar.gz",
     windows |-> "raylib-" \o raylib_version \o "_win64_msvc16.zip"]

installer_patterns(s, version) ==
    IF s = "setup_fmod_api" THEN SetupFmod_installer_patterns(version)
    ELSE SetupRaylib_installer_patterns(version)

\* installer_patterns.get(platform): "" stands for None
PatternsGet(s, platform, version) ==
    IF platform \in DOMAIN installer_patterns(s, version)
    THEN installer_patterns(s, version)[platform]
    ELSE ""

GET_SCRIPT(s) == IF s = "setup_fmod_api" THEN "get_fmod_api" ELSE "get_raylib"
INSTALL_SCRIPT(s) ==
    IF s = "setup_fmod_api" THEN "install_fmod_api" ELSE "install_raylib"

-----------------------------------------------------------------------------
(* install_fmod_api.py, install_raylib.py: the platform tables *)

FMOD_LIB_DIR == PROJECT_ROOT \o <<"libs", "fmod">>
RAYLIB_LIB_DIR == PROJECT_ROOT \o <<"libs", "raylib">>

InstallFmod_PLATFORM_CONFIG ==
    [windows |->
        [lib_subdir |-> "win_x64",
         core_inc_dir |-> <<"api", "core", "inc">>,
         core_lib_dir |-> <<"api", "core", "lib", "x64">>,
         studio_inc_dir |-> <<"api", "studio", "inc">>,
         studio_lib_dir |-> <<"api", "studio", "lib", "x64">>,
         plugins |->
            {<<"plugins", "fmod_haptics", "lib", "x64", "fmod_haptics.dll">>,
             <<"plugins", "resonance_audio", "lib", "x64", "resonanceaudio.dll">>}],
     linux |->
        [lib_subdir |-> "linux_x64",
         core_inc_dir |-> <<"api", "core", "inc">>,
         core_lib_dir |-> <<"api", "core", "lib", "x86_64">>,
         studio_inc_dir |-> <<"api", "studio", "inc">>,
         studio_lib_dir |-> <<"api", "studio", "lib", "x86_64">>,
         plugins |->
            {<<"plugins", "resonance_audio", "lib", "resonanceaudio.so">>}],
     mac |->
        [lib_subdir |-> "mac",
         core_inc_dir |-> <<"api", "core", "inc">>,
         core_lib_dir |-> <<"api", "core", "lib">>,
         studio_inc_dir |-> <<"api", "studio", "inc">>,
         studio_lib_dir |-> <<"api", "studio", "lib">>,
         plugins |->
            {<<"plugins", "fmod_haptics", "lib", "fmod_haptics.dylib">>,
             <<"plugins", "resonance_audio", "lib", "resonanceaudio.dylib">>}]]

InstallRaylib_PLATFORM_CONFIG ==
    [windows |-> [lib_subdir |-> "win_x64", inc_dir |-> "include", lib_dir |-> "lib"],
     linux   |-> [lib_subdir |-> "linux_x64", inc_dir |-> "include", lib_dir |-> "lib"],
     mac     |-> [lib_subdir |-> "mac", inc_dir |-> "include", lib_dir |-> "lib"]]

InstallFmod_detect_platform_zip(filename) ==
    LET name == Lower(filename) IN
    IF Contains(name, "win") /\ (EndsWith(name, ".exe") \/ EndsWith(name, ".zip"))
    THEN "windows"
    ELSE IF Contains(name, "linux") /\ EndsWith(name, ".tar.gz") THEN "linux"
    ELSE IF Contains(name, "mac") /\ EndsWith(name, ".dmg") THEN "mac"
    ELSE ""

\* install_fmod_api.detect_platform: "" stands for the ValueError
InstallFmod_detect_platform(filename) ==
    LET name == Lower(filename) IN
    IF Contains(name, "win") /\ EndsWith(name, ".exe") THEN "windows"
    ELSE IF Contains(name, "linux") /\ EndsWith(name, ".tar.gz") THEN "linux"
    ELSE IF Contains(name, "mac") /\ EndsWith(name, ".dmg") THEN "mac"
    ELSE ""

\* install_raylib.detect_platform: "" stands for the ValueError
InstallRaylib_detect_platform_macos_first(filename) ==
    LET name == Lower(filename) IN
    IF Contains(name, "win") /\ EndsWith(name, ".zip") THEN "windows"
    ELSE IF Contains(name, "macos") /\ EndsWith(name, ".tar.gz") THEN "mac"
    ELSE IF Contains(name, "linux") /\ EndsWith(name, ".tar.gz") THEN "linux"
    ELSE ""
InstallRaylib_detect_platform(filename) ==
    LET name == Lower(filename) IN
    IF Contains(name, "win") /\ EndsWith(name, ".zip") THEN "windows"
    ELSE IF Contains(name, "linux") /\ EndsWith(name, ".tar.gz") THEN "linux"
    ELSE IF Contains(name, "macos") /\ EndsWith(name, ".tar.gz") THEN "mac"
    ELSE ""

detect_platform(s, filename) ==
    IF s = "install_fmod_api" THEN InstallFmod_detect_platform(filename)
    ELSE InstallRaylib_detect_platform(filename)

\* the four directory roles of copy_api_files, in the order they are copied:
\* <<role, source directory in the archive, destination below FMOD_LIB_DIR>>
FmodDirRoles(platform) ==
    LET config == InstallFmod_PLATFORM_CONFIG[platform] IN
    << <<"core_inc_dir", config.core_inc_dir, <<"core", "inc">> >>,
       <<"core_lib_dir", config.core_lib_dir, <<"core", "lib", config.lib_subdir>> >>,
       <<"studio_inc_dir", config.studio_inc_dir, <<"studio", "inc">> >>,
       <<"studio_lib_dir", config.studio_lib_dir, <<"studio", "lib", config.lib_subdir>> >> >>

-----------------------------------------------------------------------------
(* The runs: scripts, arguments, initial file system *)

Downloaders == {"get_fmod_api", "get_raylib"}
Installers == {"install_fmod_api", "install_raylib"}
Orchestrators == {"setup_fmod_api", "setup_raylib"}
Scripts == Downloaders \cup Installers \cup Orchestrators

\* the versions of the scripts' usage examples
ExampleVersion(s) ==
    IF s \in {"get_fmod_api", "install_fmod_api", "setup_fmod_api"} THEN "20312"
    ELSE "5.5.0"

\* the version strings of the runs: the beginnings of the example version
Versions(s) == {SubSeq(ExampleVersion(s), 1, n) : n \in 1..MaxVersionLen}
PlatformKeys == {"mac", "linux", "windows", "apple", "android"}

\* number of positional arguments before the optional flag
Arity(s) ==
    IF s \in {"get_fmod_api", "setup_fmod_api"} THEN 4
    ELSE IF s \in {"get_raylib", "setup_raylib"} THEN 2
    ELSE 1

\* the positional arguments of a downloader or orchestrator
Positional(s, platform, version) ==
    IF Arity(s) = 4 THEN <<"user", "password", platform, version>>
    ELSE <<platform, version>>

\* installer file names an operator may pass: what the downloaders write, and
\* names that match no rule, several rules, or a rule only after lower-casing
InstallerNames ==
    {DownloaderFilename(s, p, SubSeq(ExampleVersion(s), 1, 1)) :
        s \in Downloaders, p \in {"mac", "linux", "windows"}}
        \cup {DownloaderFilename("get_fmod_api", "linux", "win")}
        \cup {"FMODSTUDIOAPI2LINUX.TAR.GZ", "setup.exe", "archive.tar.gz",
              "fmod_win.dmg", "raylib_mac.tar.gz", "raylib-linux_macos.tar.gz",
              "windows.txt"}

\* an archive the operator keeps inside the library tree of the installer,
\* passed by its absolute path
InstallerPaths(s) ==
    IF s = "install_fmod_api" THEN {"/proj/libs/fmod/sdk-linux.tar.gz"}
    ELSE IF s = "install_raylib" THEN {"/proj/libs/raylib/sdk-linux.tar.gz"}
    ELSE {}

Args(s) ==
    IF s \in Downloaders THEN
        {Positional(s, p, v) : p \in PlatformKeys, v \in Versions(s)}
            \cup {<<>>, <<"windows">>, <<"user", "password", "windows", "5", "extra">>}
    ELSE IF s \in Orchestrators THEN
        {Positional(s, p, v) \o f : p \in PlatformKeys, v \in Versions(s),
                                    f \in {<<>>, <<"--delete-installer">>}}
            \cup {<<>>, <<"windows">>,
                  Positional(s, "linux", "5") \o <<"--keep">>,
                  Positional(s, "linux", "5") \o <<"--delete-installer", "extra">>}
    ELSE
        {<<n>> \o f : n \in InstallerNames \cup InstallerPaths(s),
                        f \in {<<>>, <<"--delete-installer">>}}
            \cup {<<>>, <<"archive.tar.gz", "--keep">>,
                  <<"archive.tar.gz", "--delete-installer", "extra">>}

\* files left by earlier work: an SDK unpacked next to the temporary
\* directories, and libraries installed for another platform
LeftOvers ==
    {TMP \o <<"api", "core", "inc", "fmod.h">>,
     TMP \o <<"plugins", "resonance_audio", "lib", "resonanceaudio.so">>,
     FMOD_LIB_DIR \o <<"core", "lib", "mac", "libfmod.dylib">>,
     RAYLIB_LIB_DIR \o <<"lib", "mac", "libraylib.a">>}

\* the archive the run is about, when it is already in the working directory
InitialArchive(s, a) ==
    IF s \in Installers /\ Len(a) >= 1 THEN {ArgPath(a[1])}
    ELSE IF s \in Downloaders /\ Len(a) = Arity(s)
            /\ a[Arity(s) - 1] \in DOMAIN DownloaderConfig(s)
        THEN {CWD \o <<DownloaderFilename(s, a[Arity(s) - 1], a[Arity(s)])>>}
    ELSE {}

InitialFiles(s, a) ==
    {x \cup y : x \in {{}, InitialArchive(s, a)}, y \in {{}, LeftOvers}}

EmptyLocal ==
    [platform |-> "", filename |-> "", token |-> "", url |-> "",
     installer_path |-> <<>>, delete_installer |-> FALSE, temp_dir |-> <<>>,
     status |-> 0]

Init ==
    /\ script \in Scripts
    /\ argv \in Args(script)
    /\ opc = IF script \in Orchestrators THEN "start" ELSE "none"
    /\ orc = -1
    /\ installer_name = ""
    /\ steps = <<>>
    /\ proc = IF script \in Orchestrators THEN "none" ELSE script
    /\ pargv = IF script \in Orchestrators THEN <<>> ELSE argv
    /\ pc = IF script \in Orchestrators THEN "idle" ELSE "start"
    /\ rc = -1
    /\ local = EmptyLocal
    /\ fs_files \in InitialFiles(script, argv)
    /\ fs_dirs = {}
    /\ requests = <<>>
    /\ calls = <<>>
    /\ touched = {}
    /\ out = {}

orchVars == <<script, argv, opc, orc, installer_name, steps, proc, pargv>>
fsVars == <<fs_files, fs_dirs, touched>>

\* sys.exit(code), or the end of main (code 0), or an uncaught exception (code 1)
Exit(code) == pc' = "done" /\ rc' = code
Say(msg) == out' = out \cup {msg}

-----------------------------------------------------------------------------
(* get_fmod_api.main, get_raylib.main *)

\* argument count, platform validation, filename
GetMainStart ==
    /\ proc \in Downloaders /\ pc = "start"
    /\ UNCHANGED <<orchVars, fsVars, requests, calls>>
    /\ IF Len(pargv) # Arity(proc)
       THEN Say(<<"usage">>) /\ Exit(1) /\ UNCHANGED local
       ELSE LET platform == pargv[Arity(proc) - 1]
                version == pargv[Arity(proc)]
            IN IF platform \notin DOMAIN DownloaderConfig(proc)
               THEN Say(<<"error", "unsupported platform">>) /\ Exit(1)
                    /\ UNCHANGED local
               ELSE /\ local' = [local EXCEPT
                            !.platform = platform,
                            !.filename = DownloaderFilename(proc, platform, version)]
                    /\ pc' = IF proc = "get_fmod_api" THEN "login" ELSE "head"
                    /\ UNCHANGED <<rc, out>>

\* what a request may end in instead of a JSON answer: raise_for_status,
\* a transport error, a body that is no JSON
RequestErrors == {"http error", "network error", "no json"}

\* Python's `not x` on the value of dict.get: None and "" are both ""
Falsy_never(x) == FALSE
Falsy(x) == x = ""

\* Step 1 of get_fmod_api: login and get token
FmodLogin ==
    /\ proc = "get_fmod_api" /\ pc = "login"
    /\ requests' = Append(requests, "login")
    /\ UNCHANGED <<orchVars, fsVars, calls>>
    /\ \/ \E e \in RequestErrors : Say(<<"error", e>>) /\ Exit(1) /\ UNCHANGED local
       \/ \E token \in {"", "token"} :
            /\ local' = [local EXCEPT !.token = token]
            /\ IF Falsy(token)
               THEN Say(<<"error", "authentication failed">>) /\ Exit(1)
               ELSE pc' = "link" /\ Say(<<"ok", "authentication">>) /\ UNCHANGED rc

\* Step 2 of get_fmod_api: request the download link
FmodLink ==
    /\ proc = "get_fmod_api" /\ pc = "link"
    /\ requests' = Append(requests, "link")
    /\ UNCHANGED <<orchVars, fsVars, calls>>
    /\ \/ \E e \in RequestErrors : Say(<<"error", e>>) /\ Exit(1) /\ UNCHANGED local
       \/ \E url \in {"", "url"} :
            /\ local' = [local EXCEPT !.url = url]
            /\ IF Falsy(url)
               THEN Say(<<"error", "link retrieval failed">>) /\ Exit(1)
               ELSE pc' = "download" /\ Say(<<"ok", "download link">>) /\ UNCHANGED rc

\* Step 1 of get_raylib: validate the download link
RaylibHead_proceeds_anyway ==
    /\ proc = "get_raylib" /\ pc = "head"
    /\ requests' = Append(requests, "head")
    /\ UNCHANGED <<orchVars, fsVars, calls, local>>
    /\ \E answer \in {"http error", "network error", "ok"} :
         /\ pc' = "download" /\ UNCHANGED rc
         /\ Say(IF answer = "ok" THEN <<"ok", "link validated">> ELSE <<"error", answer>>)
RaylibHead ==
    /\ proc = "get_raylib" /\ pc = "head"
    /\ requests' = Append(requests, "head")
    /\ UNCHANGED <<orchVars, fsVars, calls, local>>
    /\ \E answer \in {"http error", "network error", "ok"} :
         IF answer = "ok"
         THEN pc' = "download" /\ Say(<<"ok", "link validated">>) /\ UNCHANGED rc
         ELSE Say(<<"error", answer>>) /\ Exit(1)

\* download_with_progress and the end of main: the request, then the file is
\* opened for writing, then the chunks are written
Download ==
    /\ proc \in Downloaders /\ pc = "download"
    /\ requests' = Append(requests, "get")
    /\ UNCHANGED <<orchVars, fs_dirs, calls, local>>
    /\ LET filepath == CWD \o <<local.filename>> IN
       \E answer \in {"http error", "network error", "open error", "stream error", "ok"} :
         IF answer \in {"http error", "network error", "open error"}
         THEN Say(<<"error", answer>>) /\ Exit(1) /\ UNCHANGED <<fs_files, touched>>
         ELSE /\ fs_files' = fs_files \cup {filepath}
              /\ touched' = touched \cup {filepath}
              /\ IF answer = "ok"
                 THEN Say(<<"ok", "download complete">>) /\ Exit(0)
                 ELSE Say(<<"error", "network error">>) /\ Exit(1)

-----------------------------------------------------------------------------
(* setup_fmod_api.main, setup_raylib.main *)

\* except Exception: print "Setup Failed", sys.exit(1)
SetupFailed ==
    /\ Say(<<"error", "setup failed">>)
    /\ orc' = 1
    /\ opc' = "done"

\* run_command: result.returncode != 0 raises RuntimeError
ChildFailed_never(returncode) == FALSE
ChildFailed(returncode) == returncode # 0

\* run_command up to the child's start
Spawn(child, args) ==
    /\ proc' = child
    /\ pargv' = args
    /\ pc' = "start"
    /\ rc' = -1
    /\ local' = EmptyLocal
    /\ steps' = Append(steps, child)

\* argument count, then Step 1: the downloader is started
SetupMainStart ==
    /\ opc = "start"
    /\ UNCHANGED <<script, argv, installer_name, fsVars, requests, calls>>
    /\ IF Len(argv) < Arity(script)
       THEN /\ Say(<<"usage">>) /\ orc' = 1 /\ opc' = "done"
            /\ UNCHANGED <<steps, proc, pargv, pc, rc, local>>
       ELSE /\ Spawn(GET_SCRIPT(script), SubSeq(argv, 1, Arity(script)))
            /\ opc' = "download"
            /\ UNCHANGED <<orc, out>>

\* the downloader has ended: run_command's check of its exit status, then
\* Step 2: the installer's name and its start
SetupAfterDownload ==
    /\ opc = "download" /\ pc = "done"
    /\ UNCHANGED <<script, argv, fsVars, requests, calls>>
    /\ LET n == Arity(script)
           platform == argv[n - 1]
           version == argv[n]
           delete_installer == Len(argv) > n /\ argv[n + 1] = "--delete-installer"
           name == PatternsGet(script, platform, version)
       IN IF ChildFailed(rc) \/ name = ""
          THEN SetupFailed /\ UNCHANGED <<installer_name, steps, proc, pargv, pc, rc, local>>
          ELSE /\ installer_name' = name
               /\ Spawn(INSTALL_SCRIPT(script),
                        <<name>> \o (IF delete_installer
                                     THEN <<"--delete-installer">> ELSE <<>>))
               /\ opc' = "install"
               /\ UNCHANGED <<orc, out>>

\* the installer has ended: run_command's check, then the success message
SetupAfterInstall ==
    /\ opc = "install" /\ pc = "done"
    /\ UNCHANGED <<script, argv, installer_name, steps, proc, pargv, pc, rc, local,
                   fsVars, requests, calls>>
    /\ IF ChildFailed(rc)
       THEN SetupFailed
       ELSE Say(<<"ok", "setup complete">>) /\ orc' = 0 /\ opc' = "done"

-----------------------------------------------------------------------------
(* install_fmod_api.main, install_raylib.main *)

TempPrefix(s) ==
    IF s = "install_fmod_api" THEN "temp_fmod_install_" ELSE "temp_raylib_install_"

\* tempfile.mkdtemp(prefix=...): a fresh directory of the temporary directory
Mkdtemp(s) == TMP \o <<TempPrefix(s) \o "0">>

\* argument count, is_file, detect_platform, mkdtemp: main up to the try block
InstallMainStart ==
    /\ proc \in Installers /\ pc = "start"
    /\ UNCHANGED <<orchVars, fs_files, requests, calls>>
    /\ IF Len(pargv) < 1 \/ Len(pargv) > 2
       THEN Say(<<"usage">>) /\ Exit(1) /\ UNCHANGED <<local, fs_dirs, touched>>
       ELSE LET installer_path == ArgPath(pargv[1])
                delete_installer == Len(pargv) = 2 /\ pargv[2] = "--delete-installer"
                platform == detect_platform(proc, PathName(installer_path))
            IN IF ~IsFile(fs_files, installer_path)
               THEN Say(<<"error", "installer not found">>) /\ Exit(1)
                    /\ UNCHANGED <<local, fs_dirs, touched>>
               ELSE IF platform = ""
               THEN Say(<<"error", "cannot detect platform">>) /\ Exit(1)
                    /\ UNCHANGED <<local, fs_dirs, touched>>
               ELSE /\ local' = [local EXCEPT
                            !.installer_path = installer_path,
                            !.delete_installer = delete_installer,
                            !.platform = platform,
                            !.temp_dir = Mkdtemp(proc)]
                    /\ fs_dirs' = fs_dirs \cup {Mkdtemp(proc)}
                    /\ touched' = touched \cup {Mkdtemp(proc)}
                    /\ pc' = "extract"
                    /\ UNCHANGED <<rc, out>>

Raise_prints_only(what) ==
    /\ Say(<<"error", what>>)
    /\ pc' = "finally"
    /\ UNCHANGED <<rc, local>>

\* an exception in the try block: except Exception prints it and calls
\* sys.exit(1), which runs the finally block first
Raise(what) ==
    /\ Say(<<"error", what>>)
    /\ local' = [local EXCEPT !.status = 1]
    /\ pc' = "finally"
    /\ UNCHANGED rc

(* What an archive may hold *)

ArchiveBases == {<<>>, <<"pkg">>}

FmodArchiveItems(platform) ==
    LET config == InstallFmod_PLATFORM_CONFIG[platform] IN
    {config.core_inc_dir \o <<"fmod.h">>,
     config.core_lib_dir \o <<"fmod.lib">>,
     config.studio_inc_dir \o <<"fmod_studio.h">>,
     config.studio_lib_dir \o <<"fmodstudio.lib">>} \cup config.plugins

RaylibArchiveItems ==
    {<<"include", "raylib.h">>, <<"lib", "libraylib.a">>, <<"README.md">>}

ArchiveItems(s, platform) ==
    IF s = "install_fmod_api" THEN FmodArchiveItems(platform) ELSE RaylibArchiveItems

\* the trees an extraction may leave in the temporary directory
ArchiveTrees(s, platform) ==
    {{b \o item : item \in items} :
        b \in ArchiveBases, items \in SUBSET ArchiveItems(s, platform)}

\* the archive's tree, unpacked into temp_dir
Unpacked(temp_dir, tree) == {temp_dir \o f : f \in tree}

Extracted(tree) ==
    /\ fs_files' = fs_files \cup Unpacked(local.temp_dir, tree)
    /\ touched' = touched \cup Unpacked(local.temp_dir, tree)
    /\ pc' = "copy"
    /\ UNCHANGED <<rc, local>>

seven_zip_paths ==
    <<"7z", "C:\\Program Files\\7-Zip\\7z.exe", "C:\\Program Files (x86)\\7-Zip\\7z.exe">>

\* subprocess.run(..., check=True) of a candidate: it completes, or raises
\* FileNotFoundError (absent) or CalledProcessError (error)
RunResult(answer) == IF answer = "ok" THEN "ok" ELSE "failed"

\* the candidates extract_windows_exe runs, given what each would answer: up
\* to the first that completes, all of them if none does
CandidatesTried_all(answers) ==
    [i \in 1..Len(seven_zip_paths) |-> <<seven_zip_paths[i], RunResult(answers[i])>>]
CandidatesTried(answers) ==
    LET oks == {i \in 1..Len(seven_zip_paths) : answers[i] = "ok"}
        last == IF oks = {} THEN Len(seven_zip_paths)
                ELSE CHOOSE i \in oks : \A j \in oks : i <= j
    IN [i \in 1..last |-> <<seven_zip_paths[i], RunResult(answers[i])>>]

\* install_fmod_api.extract_windows_exe
ExtractWindowsExe ==
    /\ proc = "install_fmod_api" /\ pc = "extract" /\ local.platform = "windows"
    /\ UNCHANGED <<orchVars, fs_dirs, requests>>
    /\ \E answers \in [1..Len(seven_zip_paths) -> {"absent", "error", "ok"}] :
         /\ calls' = calls \o CandidatesTried(answers)
         /\ IF \E i \in 1..Len(seven_zip_paths) : answers[i] = "ok"
            THEN /\ \E tree \in ArchiveTrees(proc, local.platform) : Extracted(tree)
                 /\ Say(<<"ok", "extracted">>)
            ELSE Raise("cannot extract, install 7-Zip") /\ UNCHANGED <<fs_files, touched>>

\* install_fmod_api.extract_linux_tar, install_raylib.extract_installer:
\* shutil.unpack_archive
ExtractArchive ==
    /\ \/ proc = "install_fmod_api" /\ local.platform = "linux"
       \/ proc = "install_raylib"
    /\ pc = "extract"
    /\ UNCHANGED <<orchVars, fs_dirs, requests, calls>>
    /\ \/ /\ \E tree \in ArchiveTrees(proc, local.platform) : Extracted(tree)
          /\ Say(<<"ok", "extracted">>)
       \/ Raise("unpack failed") /\ UNCHANGED <<fs_files, touched>>

\* subprocess.run(['hdiutil', 'detach', ...], check=False): a failing unmount
\* raises nothing
DetachRaises_checked(detach) == ~detach
DetachRaises(detach) == FALSE

\* install_fmod_api.extract_macos_dmg
ExtractMacosDmg ==
    /\ proc = "install_fmod_api" /\ pc = "extract" /\ local.platform = "mac"
    /\ UNCHANGED <<orchVars, requests>>
    /\ LET mount_point == local.temp_dir \o <<"dmg_mount">>
           result(b) == IF b THEN "ok" ELSE "failed"
           \* what leaves the try/finally: the exception of the copy, the
           \* one the unmount would raise, or nothing
           Outcome(copy, detach) ==
                IF DetachRaises(detach) THEN "hdiutil detach failed"
                ELSE IF copy THEN "ok" ELSE "copy from the image failed"
       IN
       /\ fs_dirs' = fs_dirs \cup {mount_point}
       /\ \E attach \in BOOLEAN, copy \in BOOLEAN, detach \in BOOLEAN :
            IF ~attach
            THEN /\ calls' = Append(calls, <<"hdiutil attach", "failed">>)
                 /\ touched' = touched \cup {mount_point}
                 /\ Raise("hdiutil attach failed") /\ UNCHANGED fs_files
            ELSE /\ calls' = calls \o << <<"hdiutil attach", "ok">>,
                                        <<"hdiutil detach", result(detach)>> >>
                 /\ IF Outcome(copy, detach) = "ok"
                    THEN /\ \E tree \in ArchiveTrees(proc, local.platform) :
                              /\ fs_files' = fs_files \cup Unpacked(local.temp_dir, tree)
                              /\ touched' = touched \cup {mount_point}
                                                \cup Unpacked(local.temp_dir, tree)
                         /\ pc' = "copy"
                         /\ Say(<<"ok", "extracted">>)
                         /\ UNCHANGED <<rc, local>>
                    ELSE /\ touched' = touched \cup {mount_point}
                         /\ Raise(Outcome(copy, detach)) /\ UNCHANGED fs_files

(* copy_api_files, copy_plugins *)

\* install_fmod_api.copy_api_files: api_dirs and source_root.  Without a
\* match api_dirs becomes [temp_dir], and source_root is api_dirs[0].parent
source_root(files, dirs, temp_dir) ==
    LET api_dirs == RGlob(files, dirs, temp_dir, "api") IN
    IF api_dirs = {} THEN Parent(temp_dir)
    ELSE Parent(FirstMatch(api_dirs))

\* the orders in which a set may be iterated
Orderings(S) ==
    {f \in [1..Cardinality(S) -> S] : \A i, j \in 1..Cardinality(S) : f[i] = f[j] => i = j}

\* the copies of install_fmod_api.copy_api_files and copy_plugins in the
\* order they are made: the four directories, then the plugins in `order`
FmodCopySteps(files, dirs, temp_dir, platform, order) ==
    LET root == source_root(files, dirs, temp_dir)
        config == InstallFmod_PLATFORM_CONFIG[platform]
        roles == FmodDirRoles(platform)
        dst_dir == FMOD_LIB_DIR \o <<"plugins", config.lib_subdir>>
    IN [i \in 1..Len(roles) |->
            [name |-> roles[i][1], kind |-> "dir", found |-> TRUE,
             src |-> root \o roles[i][2], dst |-> FMOD_LIB_DIR \o roles[i][3]]]
       \o [i \in 1..Len(order) |->
            [name |-> PathName(order[i]), kind |-> "file", found |-> TRUE,
             src |-> root \o order[i], dst |-> dst_dir \o <<PathName(order[i])>>]]

\* the copies of install_raylib.copy_api_files: src is the first match of
\* rglob, or "" (found = FALSE) when there is none
RaylibCopySteps(files, dirs, temp_dir, platform) ==
    LET config == InstallRaylib_PLATFORM_CONFIG[platform]
        inc_src_dirs == RGlob(files, dirs, temp_dir, config.inc_dir)
        lib_src_dirs == RGlob(files, dirs, temp_dir, config.lib_dir)
    IN << [name |-> "inc_dir", kind |-> "dir", found |-> inc_src_dirs # {},
           src |-> IF inc_src_dirs # {} THEN FirstMatch(inc_src_dirs) ELSE <<>>,
           dst |-> RAYLIB_LIB_DIR \o <<config.inc_dir>>],
          [name |-> "lib_dir", kind |-> "dir", found |-> lib_src_dirs # {},
           src |-> IF lib_src_dirs # {} THEN FirstMatch(lib_src_dirs) ELSE <<>>,
           dst |-> RAYLIB_LIB_DIR \o <<config.lib_dir, config.lib_subdir>>] >>

\* src.exists().  On the "" of install_raylib it is str.exists, which is no
\* method: an AttributeError
SrcExists(files, dirs, step) == step.found /\ Exists(files, dirs, step.src)
ExistsRaises(step) == ~step.found

\* shutil.copytree(src, dst, dirs_exist_ok=True) or shutil.copy2(src, dst):
\* the files written
CopiedFiles(files, step) ==
    IF step.kind = "dir"
    THEN {step.dst \o RelativeTo(f, step.src) : f \in FilesUnder(files, step.src)}
    ELSE {step.dst}

\* shutil.copytree(src, dst, dirs_exist_ok=True) / shutil.copy2(src, dst): the
\* files after the copy; what is at the destination is merged or overwritten
CopyTree_replaces_dst(files, step) ==
    {f \in files : ~IsPrefix(step.dst, f)} \cup CopiedFiles(files, step)
CopyTree(files, step) == files \cup CopiedFiles(files, step)

\* the copies that are made, one after the other: `todo` holds the indices
\* of the steps whose copy is made, in order
RECURSIVE CopyEach(_, _, _)
CopyEach(files, copy_steps, todo) ==
    IF todo = <<>> THEN files
    ELSE CopyEach(CopyTree(files, copy_steps[Head(todo)]), copy_steps, Tail(todo))

\* the step that raises: the first whose exists() raises or whose copy fails
\* (fail_at, 0 for none); 0 when no step raises
RaisingStep(copy_steps, fail_at) ==
    LET bad == {i \in 1..Len(copy_steps) : ExistsRaises(copy_steps[i]) \/ i = fail_at}
    IN IF bad = {} THEN 0 ELSE CHOOSE i \in bad : \A j \in bad : i <= j

\* the effect of the copy steps on the file system and the output
CopyOutcome(files, dirs, copy_steps, plugins_dir, fail_at) ==
    LET N == Len(copy_steps)
        raising == RaisingStep(copy_steps, fail_at)
        reached(i) == raising = 0 \/ i <= raising
        present(i) == SrcExists(files, dirs, copy_steps[i])
        copied(i) == present(i) /\ (raising = 0 \/ i < raising)
        \* dst.parent.mkdir(parents=True) before a copytree, dst by copytree
        made(i) == IF copy_steps[i].kind # "dir" \/ ~present(i) \/ ~reached(i) THEN {}
                   ELSE IF copied(i) THEN WithParents(copy_steps[i].dst)
                   ELSE WithParents(Parent(copy_steps[i].dst))
        \* copy_plugins: dst_dir.mkdir(parents=True), once the four
        \* directories are done
        plugins_made ==
            IF plugins_dir # <<>>
               /\ \A i \in 1..N : copy_steps[i].kind = "dir" => (reached(i) /\ raising # i)
            THEN WithParents(plugins_dir) ELSE {}
    IN [files |-> CopyEach(files, copy_steps, SelectSeq([i \in 1..N |-> i], copied)),
        written |-> UNION {CopiedFiles(files, copy_steps[i]) :
                                        i \in {j \in 1..N : copied(j)}},
        dirs |-> dirs \cup plugins_made \cup UNION {made(i) : i \in 1..N},
        out |-> {<<"copied", copy_steps[i].name>> : i \in {j \in 1..N : copied(j)}}
                \cup {<<"warning", copy_steps[i].name>> :
                        i \in {j \in 1..N : reached(j) /\ ~present(j)
                                            /\ ~ExistsRaises(copy_steps[j])}},
        raised |-> raising # 0]

\* the copy steps, then "Installation complete" or the exception
ApplyCopy(copy_steps, plugins_dir) ==
    \E fail_at \in 0..Len(copy_steps) :
        /\ fail_at # 0 => SrcExists(fs_files, fs_dirs, copy_steps[fail_at])
        /\ LET o == CopyOutcome(fs_files, fs_dirs, copy_steps, plugins_dir, fail_at) IN
           /\ fs_files' = o.files
           /\ fs_dirs' = o.dirs
           /\ touched' = touched \cup o.written
                            \cup {d \in o.dirs : ~Exists(fs_files, fs_dirs, d)}
           /\ IF o.raised
              THEN /\ out' = out \cup o.out \cup {<<"error", "copy failed">>}
                   /\ local' = [local EXCEPT !.status = 1]
                   /\ pc' = "finally"
                   /\ UNCHANGED rc
              ELSE /\ out' = out \cup o.out \cup {<<"ok", "installation complete">>}
                   /\ pc' = "delete"
                   /\ UNCHANGED <<rc, local>>

\* install_fmod_api.copy_api_files (with copy_plugins)
FmodCopyApiFiles ==
    /\ proc = "install_fmod_api" /\ pc = "copy"
    /\ UNCHANGED <<orchVars, requests, calls>>
    /\ LET config == InstallFmod_PLATFORM_CONFIG[local.platform] IN
       \E order \in Orderings(config.plugins) :
           ApplyCopy(FmodCopySteps(fs_files, fs_dirs, local.temp_dir, local.platform, order),
                     FMOD_LIB_DIR \o <<"plugins", config.lib_subdir>>)

\* install_raylib.copy_api_files
RaylibCopyApiFiles ==
    /\ proc = "install_raylib" /\ pc = "copy"
    /\ UNCHANGED <<orchVars, requests, calls>>
    /\ ApplyCopy(RaylibCopySteps(fs_files, fs_dirs, local.temp_dir, local.platform), <<>>)

\* main: "Delete installer if requested"
DeleteInstaller ==
    /\ proc \in Installers /\ pc = "delete"
    /\ UNCHANGED <<orchVars, fs_dirs, requests, calls>>
    /\ IF local.delete_installer
       THEN \/ /\ fs_files' = fs_files \ {local.installer_path}
               /\ touched' = touched \cup {local.installer_path}
               /\ Say(<<"ok", "deleted installer">>)
               /\ pc' = "finally"
               /\ UNCHANGED <<rc, local>>
            \/ Raise("unlink failed") /\ UNCHANGED <<fs_files, touched>>
       ELSE pc' = "finally" /\ UNCHANGED <<rc, local, fs_files, touched, out>>

\* shutil.rmtree(path): what is left of the files and of the directories
RmtreeFiles(files, path) == {f \in files : ~IsPrefix(path, f)}
RmtreeDirs_keeps_root(dirs, path) == {d \in dirs : ~IsUnder(d, path)}
RmtreeDirs(dirs, path) == {d \in dirs : ~IsPrefix(path, d)}

\* main: the finally block, shutil.rmtree(temp_dir, ignore_errors=False), and
\* the end of the run: the pending exit status, or the exception of rmtree,
\* which nothing catches (a traceback, exit status 1)
Cleanup ==
    /\ proc \in Installers /\ pc = "finally"
    /\ UNCHANGED <<orchVars, requests, calls, local>>
    /\ \/ /\ fs_files' = RmtreeFiles(fs_files, local.temp_dir)
          /\ fs_dirs' = RmtreeDirs(fs_dirs, local.temp_dir)
          /\ touched' = touched \cup {local.temp_dir}
          /\ Say(<<"ok", "temporary files removed">>)
          /\ Exit(local.status)
       \/ /\ UNCHANGED <<fs_files, fs_dirs, touched>>
          /\ Say(<<"traceback", "rmtree failed">>)
          /\ Exit(1)

-----------------------------------------------------------------------------

Next ==
    \/ GetMainStart
    \/ FmodLogin
    \/ FmodLink
    \/ RaylibHead
    \/ Download
    \/ SetupMainStart
    \/ SetupAfterDownload
    \/ SetupAfterInstall
    \/ InstallMainStart
    \/ ExtractWindowsExe
    \/ ExtractArchive
    \/ ExtractMacosDmg
    \/ FmodCopyApiFiles
    \/ RaylibCopyApiFiles
    \/ DeleteInstaller
    \/ Cleanup

Spec == Init /\ [][Next]_vars

\* the run of the script the operator started has ended, and its exit status
Finished == IF opc = "none" THEN pc = "done" ELSE opc = "done"
ExitStatus == IF opc = "none" THEN rc ELSE orc

-----------------------------------------------------------------------------
(* Properties *)

\* an installer run that got as far as creating its temporary workspace
WorkspaceCreated == proc \in Installers /\ local.temp_dir # <<>>
WorkspaceExists == Exists(fs_files, fs_dirs, local.temp_dir)
InstallEnded == proc \in Installers /\ pc = "done"
Printed(msg) == msg \in out

\* C1, as claimed: in every installer run that created the temporary
\* workspace, the workspace no longer exists when the install routine ends.
C1_WorkspaceGoneAtEnd ==
    (InstallEnded /\ WorkspaceCreated) => ~WorkspaceExists

\* C1, amended: in every installer run that created the temporary workspace,
\* when the install routine ends the workspace no longer exists, unless the
\* final removal (rmtree) itself raised; extraction, copy or installer
\* deletion having raised makes no difference.
C1_WorkspaceGoneUnlessRmtreeRaised ==
    (InstallEnded /\ WorkspaceCreated) =>
        (~WorkspaceExists \/ Printed(<<"traceback", "rmtree failed">>))

\* C1 witness: a run whose copy step raised after a successful extraction has
\* ended with the workspace removed.
C1_Witness ==
    /\ InstallEnded /\ WorkspaceCreated
    /\ Printed(<<"ok", "extracted">>) /\ Printed(<<"error", "copy failed">>)
    /\ ~WorkspaceExists

\* C2: the archive is removed only in runs with --delete-installer that end
\* with exit status 0; in every run that ends with a non-zero status, and in
\* every run without the flag, the archive still exists afterwards.
C2_ArchiveRemovedOnlyOnSuccess ==
    (InstallEnded /\ local.installer_path # <<>>) =>
        (IsFile(fs_files, local.installer_path)
            \/ (local.delete_installer /\ rc = 0))

\* C3: an orchestrator starts the downloader first and the installer only
\* after the downloader has ended with status 0; once a child has ended with a
\* non-zero status the orchestrator's next step starts nothing, does not print
\* the success message and ends with status 1.
C3_Step ==
    /\ steps' # steps =>
          /\ steps = <<>> => steps' = <<GET_SCRIPT(script)>>
          /\ steps # <<>> =>
                /\ steps' = <<GET_SCRIPT(script), INSTALL_SCRIPT(script)>>
                /\ steps = <<GET_SCRIPT(script)>>
                /\ proc = GET_SCRIPT(script) /\ pc = "done" /\ rc = 0
    /\ (opc \in {"download", "install"} /\ pc = "done" /\ rc # 0) =>
          /\ steps' = steps
          /\ opc' = "done" /\ orc' = 1
          /\ <<"ok", "setup complete">> \notin out'
    /\ (opc' = "done" /\ orc' = 0) => (Len(steps') = 2 /\ rc' = 0)
C3_DownloadThenInstall == [][C3_Step]_vars

\* C3 witness: an orchestrator has ended with status 1 after its installer,
\* started second, failed.
C3_Witness ==
    /\ opc = "done" /\ orc = 1
    /\ steps = <<GET_SCRIPT(script), INSTALL_SCRIPT(script)>>
    /\ rc = 1
    /\ ~Printed(<<"ok", "setup complete">>)

\* the platform key and the version of an orchestrator's or downloader's run
ArgsGiven ==
    /\ script \in Downloaders \cup Orchestrators
    /\ IF script \in Downloaders THEN Len(argv) = Arity(script)
       ELSE Len(argv) >= Arity(script)
ArgPlatform == argv[Arity(script) - 1]
ArgVersion == argv[Arity(script)]

\* C4: for every platform key the downloader accepts and every version, the
\* orchestrator computes the file name the downloader writes, and it accepts
\* exactly the downloader's platform keys; so once the downloader step has
\* completed, the installer is started on the file the downloader wrote.
C4_SameInstallerFilename ==
    (script \in Orchestrators /\ ArgsGiven /\ opc \in {"install", "done"}) =>
        LET get == GET_SCRIPT(script) IN
        /\ (ArgPlatform \in DOMAIN DownloaderConfig(get))
               <=> (ArgPlatform \in DOMAIN installer_patterns(script, ArgVersion))
        /\ ArgPlatform \in DOMAIN DownloaderConfig(get) =>
               PatternsGet(script, ArgPlatform, ArgVersion)
                   = DownloaderFilename(get, ArgPlatform, ArgVersion)
        /\ Printed(<<"ok", "download complete">>) =>
               /\ steps = <<get, INSTALL_SCRIPT(script)>>
               /\ CWD \o <<installer_name>> \in touched

\* the detection rules as the claim lists them: <<substring, extension, platform>>
DetectRules(s) ==
    IF s = "install_fmod_api"
    THEN {<<"win", ".exe", "windows">>, <<"linux", ".tar.gz", "linux">>,
          <<"mac", ".dmg", "mac">>}
    ELSE {<<"win", ".zip", "windows">>, <<"linux", ".tar.gz", "linux">>,
          <<"macos", ".tar.gz", "mac">>}
MatchingRules(s, filename) ==
    LET name == Lower(filename) IN
    {r \in DetectRules(s) : Contains(name, r[1]) /\ EndsWith(name, r[2])}
\* an installer run whose archive was found, right after the platform
\* detection: about to extract, or ended without a temporary directory
Detected ==
    /\ proc \in Installers /\ Len(pargv) \in {1, 2}
    /\ pc = "extract" \/ (pc = "done" /\ local.temp_dir = <<>>)
    /\ ~Printed(<<"error", "installer not found">>)
\* the run has ended with status 1 on the detection error, no temporary
\* directory made
DetectionFailed ==
    /\ pc = "done" /\ rc = 1 /\ Printed(<<"error", "cannot detect platform">>)
    /\ local.temp_dir = <<>>
    /\ \A p \in touched \cup fs_dirs : ~IsPrefix(TMP, p)

\* C5, as claimed: detect_platform returns the platform of each rule whose
\* substring and extension the lower-cased file name has, and for every
\* other name the run ends with status 1 on the detection error before any
\* temporary directory is created.
C5_DetectByRules ==
    Detected =>
        /\ \A r \in MatchingRules(proc, pargv[1]) : local.platform = r[3]
        /\ MatchingRules(proc, pargv[1]) = {} => DetectionFailed

\* C5, amended: the rules are tried in the order windows, linux, mac and the
\* first that matches decides (for the graphics library a .tar.gz name that
\* contains both 'linux' and 'macos' is linux, not mac); for a name that
\* matches no rule the run ends with status 1 on the detection error before
\* any temporary directory is created.
C5_DetectByFirstRule ==
    Detected =>
        LET matched == {r[3] : r \in MatchingRules(proc, pargv[1])} IN
        /\ matched # {} =>
              local.platform = (IF "windows" \in matched THEN "windows"
                                ELSE IF "linux" \in matched THEN "linux" ELSE "mac")
        /\ matched = {} => DetectionFailed

\* C5 witness: the audio-SDK installer, given an existing .zip whose name
\* contains 'win', has ended on the detection error.
C5_Witness ==
    /\ proc = "install_fmod_api" /\ Detected
    /\ pargv[1] = "raylib-5_win64_msvc16.zip"
    /\ DetectionFailed

\* the state the copy step leaves: extraction succeeded, cleanup not yet run
CopyStepDone ==
    /\ proc \in Installers /\ pc \in {"delete", "finally"}
    /\ Printed(<<"ok", "extracted">>)
LIB_DIR(s) == IF s = "install_fmod_api" THEN FMOD_LIB_DIR ELSE RAYLIB_LIB_DIR
\* the names of the copy steps: the directory roles and the plugins
CopyStepNames(s, platform) ==
    IF s = "install_fmod_api"
    THEN {"core_inc_dir", "core_lib_dir", "studio_inc_dir", "studio_lib_dir"}
            \cup {PathName(p) : p \in InstallFmod_PLATFORM_CONFIG[platform].plugins}
    ELSE {"inc_dir", "lib_dir"}
\* the files of the destination library tree the run has written
LibFilesWritten ==
    {p \in touched : IsUnder(p, LIB_DIR(proc)) /\ p \in fs_files}

\* C6: when extraction leaves a completely empty workspace, every copy step
\* prints its not-found warning, no step raises, and the destination library
\* tree gains no files.
C6_EmptyWorkspaceOnlyWarns ==
    (CopyStepDone /\ FilesUnder(fs_files, local.temp_dir) = {}) =>
        /\ \A n \in CopyStepNames(proc, local.platform) : Printed(<<"warning", n>>)
        /\ ~Printed(<<"error", "copy failed">>)
        /\ LibFilesWritten = {}

\* the root of the extracted tree: the directory that holds 'api', or the
\* workspace itself
ExtractedRoot ==
    LET api == RGlob(fs_files, fs_dirs, local.temp_dir, "api") IN
    IF api = {} THEN local.temp_dir ELSE Parent(FirstMatch(api))

\* C7: in the audio-SDK installer each role is copied on its own: a role
\* whose source is absent from the extracted tree gets a warning, every role
\* whose source is in the extracted tree is copied, and a run in which nothing
\* else fails ends with status 0.
C7_RolesIndependent ==
    /\ (CopyStepDone /\ proc = "install_fmod_api"
            /\ ~Printed(<<"error", "copy failed">>)) =>
        LET roles == FmodDirRoles(local.platform)
            config == InstallFmod_PLATFORM_CONFIG[local.platform]
            dst_dir == FMOD_LIB_DIR \o <<"plugins", config.lib_subdir>>
        IN /\ \A i \in 1..Len(roles) :
                LET src == ExtractedRoot \o roles[i][2] IN
                IF Exists(fs_files, fs_dirs, src)
                THEN /\ Printed(<<"copied", roles[i][1]>>)
                     /\ \A f \in FilesUnder(fs_files, src) :
                            FMOD_LIB_DIR \o roles[i][3] \o RelativeTo(f, src) \in fs_files
                ELSE Printed(<<"warning", roles[i][1]>>)
           /\ \A p \in config.plugins :
                IF Exists(fs_files, fs_dirs, ExtractedRoot \o p)
                THEN dst_dir \o <<PathName(p)>> \in fs_files
                ELSE Printed(<<"warning", PathName(p)>>)
    /\ (InstallEnded /\ proc = "install_fmod_api" /\ Printed(<<"ok", "extracted">>)
            /\ \A m \in out : m[1] \notin {"error", "traceback"}) => rc = 0

\* a diagnostic of a failure has been printed
FailurePrinted == \E m \in out : m[1] \in {"usage", "error", "traceback"}
\* the last message of a script that did all its work
SuccessPrinted ==
    IF script \in Downloaders THEN Printed(<<"ok", "download complete">>)
    ELSE IF script \in Installers
        THEN Printed(<<"ok", "installation complete">>)
             /\ Printed(<<"ok", "temporary files removed">>)
    ELSE Printed(<<"ok", "setup complete">>)

\* C8: every script ends with exit status 0 exactly when all of its steps
\* succeeded, and with exit status 1 on every failure it reports.
C8_ExitStatus ==
    Finished =>
        /\ ExitStatus \in {0, 1}
        /\ ExitStatus = 0 <=> ~FailurePrinted
        /\ ExitStatus = 0 => SuccessPrinted

\* C8 witness: an orchestrator has ended with status 1 because its installer
\* failed to unpack the archive.
C8_Witness ==
    /\ script \in Orchestrators /\ Finished /\ ExitStatus = 1
    /\ Printed(<<"error", "unpack failed">>)

\* C9: the audio-SDK downloader issues login, link request and payload
\* download in this order, each at most once; the link request only with a
\* non-empty token, the download (and the destination file) only with a
\* non-empty url; without a token or without a url the run ends with status 1,
\* no later request issued and no file written.
C9_LoginLinkDownload ==
    proc = "get_fmod_api" =>
        /\ IsPrefix(requests, <<"login", "link", "get">>)
        /\ Len(requests) >= 2 => local.token # ""
        /\ Len(requests) >= 3 => local.url # ""
        /\ touched # {} => Len(requests) = 3
        /\ (Len(requests) >= 1 /\ local.token = "") =>
              (pc = "done" /\ rc = 1 /\ requests = <<"login">> /\ touched = {})
        /\ (Len(requests) >= 2 /\ local.url = "") =>
              (pc = "done" /\ rc = 1 /\ requests = <<"login", "link">> /\ touched = {})

\* C9 witness: the link answer held no url and the run has ended with status
\* 1 after two requests, no file written.
C9_Witness ==
    /\ proc = "get_fmod_api" /\ pc = "done" /\ rc = 1
    /\ Printed(<<"error", "link retrieval failed">>)
    /\ requests = <<"login", "link">> /\ touched = {}

\* the platform keys of a script's own table
OwnPlatformKeys(s) ==
    IF s \in Downloaders THEN DOMAIN DownloaderConfig(s)
    ELSE DOMAIN installer_patterns(s, "")

\* C10: in the downloaders and the orchestrators a platform key that is not
\* in the script's own platform table makes the run fail before any network
\* request is issued and before any file is created or modified.
C10_UnknownPlatformFailsFirst ==
    (ArgsGiven /\ ArgPlatform \notin OwnPlatformKeys(script)) =>
        /\ requests = <<>>
        /\ touched = {}
        /\ Finished => ExitStatus = 1

\* C11: the graphics-library downloader issues the existence check of the
\* release URL before the payload download; the download is requested and
\* the destination file written only after the check succeeded; if the check
\* fails the run ends with status 1, no download requested, no file created.
C11_HeadThenDownload ==
    proc = "get_raylib" =>
        /\ IsPrefix(requests, <<"head", "get">>)
        /\ Len(requests) >= 2 => Printed(<<"ok", "link validated">>)
        /\ touched # {} => (Len(requests) = 2 /\ Printed(<<"ok", "link validated">>))
        /\ (Len(requests) >= 1 /\ ~Printed(<<"ok", "link validated">>)) =>
              (pc = "done" /\ rc = 1 /\ requests = <<"head">> /\ touched = {})

\* C11 witness: the existence check failed and the run has ended with status
\* 1 after that single request, no file written.
C11_Witness ==
    /\ proc = "get_raylib" /\ pc = "done" /\ rc = 1
    /\ requests = <<"head">> /\ touched = {}
    /\ Printed(<<"error", "http error">>)
    /\ ~Printed(<<"ok", "link validated">>)

\* the files of the two destination library trees
LibraryFiles(files) ==
    {p \in files : IsUnder(p, FMOD_LIB_DIR) \/ IsUnder(p, RAYLIB_LIB_DIR)}

\* C12, as claimed: no step of an install run removes a file from the
\* destination library trees: every file path present there before the step
\* is present after it.
C12_Step ==
    proc \in Installers => LibraryFiles(fs_files) \subseteq fs_files'
C12_LibraryFilesKept == [][C12_Step]_vars

\* C12, amended: the only file path under the library trees a step of an
\* install run removes is the installer archive itself, removed in the
\* deletion step of a run given --delete-installer after the copies
\* succeeded; every other file path present before the step is present
\* after it, whether the run succeeds or fails.
C12_StepButArchive ==
    proc \in Installers =>
        /\ LibraryFiles(fs_files) \ {local.installer_path} \subseteq fs_files'
        /\ (local.installer_path \in LibraryFiles(fs_files)
                /\ local.installer_path \notin fs_files') =>
              (pc = "delete" /\ local.delete_installer
                /\ Printed(<<"ok", "installation complete">>))
C12_LibraryFilesKeptButArchive == [][C12_StepButArchive]_vars

\* C12 witness: an install run for the platform of an earlier install has
\* ended; it wrote files into the library tree holding the earlier library,
\* and that library is still there.
C12_Witness ==
    /\ InstallEnded /\ proc = "install_fmod_api" /\ local.platform = "mac"
    /\ FMOD_LIB_DIR \o <<"core", "lib", "mac", "libfmod.dylib">> \in fs_files
    /\ \E p \in LibFilesWritten : IsUnder(p, FMOD_LIB_DIR \o <<"core", "lib", "mac">>)

\* C13: in the audio-SDK installer's copy step the source root is the parent
\* of the first 'api' entry of the extracted tree, or, when the tree has no
\* such entry, the temporary workspace itself; every source path of the copy
\* step lies inside the workspace.
C13_SourceRootInWorkspace ==
    (proc = "install_fmod_api" /\ pc = "copy") =>
        LET root == source_root(fs_files, fs_dirs, local.temp_dir)
            plugins == InstallFmod_PLATFORM_CONFIG[local.platform].plugins
        IN /\ root = ExtractedRoot
           /\ IsPrefix(local.temp_dir, root)
           /\ \A order \in Orderings(plugins) :
                LET copy_steps == FmodCopySteps(fs_files, fs_dirs, local.temp_dir,
                                                local.platform, order)
                IN \A i \in 1..Len(copy_steps) :
                        IsPrefix(local.temp_dir, copy_steps[i].src)

\* the audio-SDK installer has run the Windows extraction
WindowsExtractionDone ==
    /\ proc = "install_fmod_api" /\ local.platform = "windows"
    /\ pc \in {"copy", "delete", "finally", "done"}

\* C14: the Windows extraction runs the candidate commands in the order of
\* the list; a candidate that completes is the last one run, and then the
\* extraction reports success; the extraction fails with the 'install 7-Zip'
\* error exactly when all candidates have been run and every one was absent
\* or returned an error.
C14_FirstCandidateThatCompletes ==
    WindowsExtractionDone =>
        LET n == Len(calls) IN
        /\ n \in 1..Len(seven_zip_paths)
        /\ \A i \in 1..n : calls[i][1] = seven_zip_paths[i]
        /\ \A i \in 1..n : calls[i][2] = "ok" => i = n
        /\ Printed(<<"ok", "extracted">>) <=> calls[n][2] = "ok"
        /\ Printed(<<"error", "cannot extract, install 7-Zip">>)
              <=> (n = Len(seven_zip_paths) /\ \A i \in 1..n : calls[i][2] = "failed")
        /\ Printed(<<"ok", "extracted">>)
              <=> ~Printed(<<"error", "cannot extract, install 7-Zip">>)

\* C14 witness: the first candidate was absent or failed, the second
\* completed, the third was not run, and the extraction succeeded.
C14_Witness ==
    /\ WindowsExtractionDone /\ pc = "copy"
    /\ calls = << <<seven_zip_paths[1], "failed">>, <<seven_zip_paths[2], "ok">> >>
    /\ Printed(<<"ok", "extracted">>)

\* the audio-SDK installer has run the disk-image extraction
DmgExtractionDone ==
    /\ proc = "install_fmod_api" /\ local.platform = "mac"
    /\ pc \in {"copy", "delete", "finally", "done"}
\* the files the extraction has put into the workspace
WorkspaceFilesWritten == {p \in touched : IsUnder(p, local.temp_dir) /\ p \in fs_files}

\* C15: in the disk-image extraction a failed mount is followed by no copy
\* and no unmount, and the extraction fails; after a successful mount the
\* unmount is run exactly once, whether the copy completed or raised, and the
\* unmount's own result changes nothing: the extraction succeeds unless the
\* copy raised.
C15_UnmountOnceNotPropagated ==
    DmgExtractionDone =>
        /\ Len(calls) >= 1 /\ calls[1][1] = "hdiutil attach"
        /\ calls[1][2] = "failed" =>
              /\ calls = << <<"hdiutil attach", "failed">> >>
              /\ Printed(<<"error", "hdiutil attach failed">>)
              /\ ~Printed(<<"ok", "extracted">>)
              /\ local.status = 1
              /\ pc \in {"finally", "done"} => WorkspaceFilesWritten = {}
        /\ calls[1][2] = "ok" =>
              /\ Len(calls) = 2 /\ calls[2][1] = "hdiutil detach"
              /\ ~Printed(<<"error", "hdiutil attach failed">>)
              /\ ~Printed(<<"error", "hdiutil detach failed">>)
              /\ Printed(<<"ok", "extracted">>)
                    <=> ~Printed(<<"error", "copy from the image failed">>)
              /\ Printed(<<"error", "copy from the image failed">>) => local.status = 1

\* C15 witness: the mount succeeded, the copy completed, the unmount failed,
\* and the extraction has succeeded all the same.
C15_Witness ==
    /\ DmgExtractionDone /\ pc = "copy"
    /\ calls = << <<"hdiutil attach", "ok">>, <<"hdiutil detach", "failed">> >>
    /\ Printed(<<"ok", "extracted">>)
    /\ WorkspaceFilesWritten # {}

\* the downloader of an installer's SDK
DownloaderOf(s) == IF s = "install_fmod_api" THEN "get_fmod_api" ELSE "get_raylib"
\* version strings of the round trip: those of the runs, and two that hold
\* the marker of another platform
RoundTripVersions(s) == Versions(s) \cup {"win", "linux"}
\* the installer was given the file the downloader of its SDK writes for
\* platform p and version v
GivenDownloadOf(p, v) ==
    PathName(ArgPath(pargv[1])) = DownloaderFilename(DownloaderOf(proc), p, v)

\* C16, as claimed: for each SDK, every platform key p of the downloader and
\* every version string, detect_platform applied to the file name the
\* downloader writes for (p, version) returns p.
C16_RoundTrip ==
    Detected =>
        \A p \in DOMAIN DownloaderConfig(DownloaderOf(proc)),
           v \in RoundTripVersions(DownloaderOf(proc)) :
            GivenDownloadOf(p, v) => (pc = "extract" /\ local.platform = p)

\* what detect_platform makes of the downloader's file for (p, v): the
\* graphics-library installer tries its linux rule before its macos rule, and
\* both end in .tar.gz
RoundTripPlatform(s, p, v) ==
    IF s = "install_raylib" /\ p = "mac" /\ Contains(Lower(v), "linux") THEN "linux"
    ELSE p

\* C16, amended: detect_platform applied to the file name the downloader
\* writes for (p, version) returns p, for every version string in the
\* audio SDK, and in the graphics library unless p is mac and the version
\* string contains 'linux' in any letter case: then it returns linux.
C16_RoundTripUnlessLinuxInVersion ==
    Detected =>
        \A p \in DOMAIN DownloaderConfig(DownloaderOf(proc)),
           v \in RoundTripVersions(DownloaderOf(proc)) :
            GivenDownloadOf(p, v) =>
                (pc = "extract" /\ local.platform = RoundTripPlatform(proc, p, v))

\* C16 witness: in an orchestrated run the downloader has written the file
\* for mac and the installer, given that file, has detected mac.
C16_Witness ==
    /\ script = "setup_raylib" /\ Detected /\ pc = "extract"
    /\ GivenDownloadOf("mac", "5")
    /\ ArgPath(pargv[1]) \in touched
    /\ local.platform = "mac"

====
